---- MODULE Spec2Model ----
(***************************************************************************)
(* Literature tracker: the paper store (papers.db), ingestion by the       *)
(* fetchers, and the weekly reading-list selection pick_weekly_reading     *)
(* of code/03_weekly_picks.py.                                             *)
(*                                                                         *)
(* Strings are sequences of one-character strings.  Scores are kept in     *)
(* hundredths (the code rounds to two decimals), so 38.33 is 3833.         *)
(***************************************************************************)
EXTENDS Integers, Sequences, FiniteSets, TLC

\* ------------------------------------------------------------------ bounds
\* Rows the store may hold.
MaxPapers == 3
\* Largest num_papers a configuration sets.
MaxNum == 2
\* Entries the first fetch stores.
MaxBacklog == 13
\* Times a keyword letter stands in the text a paper is scored on.
MaxHits == 6
\* Papers in the store when the master script starts.
MasterStock == 3

\* ------------------------------------------------------------------ strings
Min(a, b) == IF a < b THEN a ELSE b

\* str.lower(), one character
LowerChar(c) ==
    CASE c = "A" -> "a"
      [] c = "B" -> "b"
      [] c = "C" -> "c"
      [] c = "D" -> "d"
      [] c = "T" -> "t"
      [] c = "X" -> "x"
      [] OTHER -> c

\* str.lower()
Lower(s) == [i \in DOMAIN s |-> LowerChar(s[i])]

IsSpace(c) == c = " "

RECURSIVE LStrip(_)
LStrip(s) == IF s # <<>> /\ IsSpace(Head(s)) THEN LStrip(Tail(s)) ELSE s

RECURSIVE RStrip(_)
RStrip(s) ==
    IF s # <<>> /\ IsSpace(s[Len(s)]) THEN RStrip(SubSeq(s, 1, Len(s) - 1)) ELSE s

\* str.strip()
Strip(s) == RStrip(LStrip(s))

\* re.sub(r"\s+", " ", s): every run of whitespace becomes one blank
RECURSIVE CollapseWs(_)
CollapseWs(s) ==
    IF s = <<>> THEN <<>>
    ELSE IF IsSpace(Head(s))
         THEN <<" ">> \o CollapseWs(LStrip(s))
         ELSE <<Head(s)>> \o CollapseWs(Tail(s))

\* Python's `kw in text` on strings: kw is a contiguous substring of text
Contains(text, kw) ==
    \E i \in 0..(Len(text) - Len(kw)) : SubSeq(text, i + 1, i + Len(kw)) = kw

\* ------------------------------------------------------------------ ids
\* make_id: sha256 of the normalised title+authors, cut to 16 hex digits.
\* The digest is taken as injective on the strings of the model, so the id is
\* represented by the normalised string it is computed from.
make_id(title, authors) == CollapseWs(Strip(Lower(title \o authors)))

\* check_relevance(title, abstract, keywords)
check_relevance(title, abstract, keywords) ==
    LET text == Lower(title \o <<" ">> \o abstract)
    IN  \E i \in DOMAIN keywords : Contains(text, Lower(keywords[i]))

\* ------------------------------------------------------------------ venue tiers
TOP5 ==
    {"American Economic Review", "Econometrica", "Journal of Political Economy",
     "Quarterly Journal of Economics", "Review of Economic Studies"}

TOP_FIELD ==
    {"Review of Economics and Statistics",
     "Journal of the European Economic Association",
     "AEJ: Applied Economics", "AEJ: Economic Policy", "AEJ: Microeconomics",
     "JPE Microeconomics"}

FIELD_JOURNALS ==
    {"Journal of Labor Economics", "Journal of Public Economics",
     "Journal of Health Economics", "Journal of Human Resources",
     "RAND Journal of Economics", "Journal of Urban Economics",
     "Journal of Development Economics", "Journal of Econometrics",
     "Journal of Political Economy Microeconomics"}

ELIGIBLE_SOURCES ==
    TOP5 \cup TOP_FIELD \cup FIELD_JOURNALS \cup
    {"NBER Working Paper", "Job Market Paper"}

\* SQL NULL in column journal, None in Python.
NULL == "NULL"

\* Venue names are whole strings; `"NBER" in journal` is tabulated over the
\* venue names of the model: those that hold the substring NBER.
ContainsNBER(journal) == journal \in {"NBER Working Paper", "NBER Reporter"}

_is_eligible_ListOnly(journal) == journal \in ELIGIBLE_SOURCES

_is_eligible(journal) == journal \in ELIGIBLE_SOURCES \/ ContainsNBER(journal)

\* `"NBER" in journal` raises TypeError when journal is None and is not in
\* ELIGIBLE_SOURCES.
_is_eligible_raises(journal) == journal = NULL

\* ------------------------------------------------------------------ scoring
\* dict.get(key, default)
Get(d, k, default) == IF k \in DOMAIN d THEN d[k] ELSE default

\* _keyword_hits: the keywords of the list (with repetitions) found in text
RECURSIVE _keyword_hits(_, _)
_keyword_hits(text, keywords) ==
    IF keywords = <<>> THEN 0
    ELSE (IF Contains(Lower(text), Lower(Head(keywords))) THEN 1 ELSE 0)
         + _keyword_hits(text, Tail(keywords))

\* field_hits: _keyword_hits summed over the categories of field_keywords
RECURSIVE FieldHits(_, _, _)
FieldHits(text, field_kws, names) ==
    IF names = {} THEN 0
    ELSE LET n == CHOOSE x \in names : TRUE
         IN  _keyword_hits(text, field_kws[n]) + FieldHits(text, field_kws, names \ {n})

\* Mutant: a weight the map does not name counts as zero.
TierBonus_ZeroDefault(journal, weights) ==
    IF journal \in TOP5 THEN Get(weights, "journal_top5", 0)
    ELSE IF journal \in TOP_FIELD THEN Get(weights, "journal_top_field", 0)
    ELSE IF journal = "Job Market Paper" THEN Get(weights, "jmp", 0)
    ELSE IF journal \in FIELD_JOURNALS THEN Get(weights, "journal_field", 0)
    ELSE IF ContainsNBER(journal) THEN Get(weights, "nber", 0)
    ELSE 0

\* The venue-tier bonus: the first branch of the if/elif chain that matches.
TierBonus(journal, weights) ==
    IF journal \in TOP5 THEN Get(weights, "journal_top5", 30)
    ELSE IF journal \in TOP_FIELD THEN Get(weights, "journal_top_field", 20)
    ELSE IF journal = "Job Market Paper" THEN Get(weights, "jmp", 17)
    ELSE IF journal \in FIELD_JOURNALS THEN Get(weights, "journal_field", 15)
    ELSE IF ContainsNBER(journal) THEN Get(weights, "nber", 18)
    ELSE 0

Capped_NoCap(hits, cap, w) == IF hits > 0 THEN w * hits ELSE 0

\* weight * min(hits, cap), added only when hits > 0
Capped(hits, cap, w) == IF hits > 0 THEN w * Min(hits, cap) ELSE 0

\* round(score, 2), in hundredths, of a score given in sixths.  100*n/6 is
\* never halfway between two integers, so the rounding mode does not matter.
Round2(sixths) == (100 * sixths + 3) \div 6

\* score_paper, in hundredths
score_paper(paper, cfg_picks, weights) ==
    LET journal == paper.journal
        text == Lower(paper.title \o <<" ">> \o paper.abstract)
        field_kws == Get(cfg_picks, "field_keywords", <<>>)
        field_hits == FieldHits(text, field_kws, DOMAIN field_kws)
        struct_hits == _keyword_hits(text, Get(cfg_picks, "structural_keywords", <<>>))
        data_hits == _keyword_hits(text, Get(cfg_picks, "novel_data_keywords", <<>>))
        meas_hits == _keyword_hits(text, Get(cfg_picks, "novel_measurement_keywords", <<>>))
        sixths ==
            6 * TierBonus(journal, weights)
            + 2 * Capped(field_hits, 5, Get(weights, "field_match", 25))
            + 3 * Capped(struct_hits, 4, Get(weights, "structural", 20))
            + 3 * Capped(data_hits, 4, Get(weights, "novel_data", 15))
            + 3 * Capped(meas_hits, 3, Get(weights, "novel_measurement", 15))
            + 6 * (IF paper.relevant # 0 THEN Get(weights, "keyword_relevant", 10) ELSE 0)
    IN  Round2(sixths)

\* ------------------------------------------------------------------ store
\* A row of table papers, of the columns the model follows.
NewRow(paper, now) ==
    [paper_id |-> paper.paper_id, title |-> paper.title, authors |-> paper.authors,
     abstract |-> paper.abstract, journal |-> paper.journal,
     oa_url |-> Get(paper, "oa_url", <<>>), fetched_at |-> now,
     relevant |-> paper.relevant, picked |-> 0]

\* paper_exists: SELECT 1 FROM papers WHERE paper_id = ?
paper_exists(conn, paper_id) == \E i \in DOMAIN conn : conn[i].paper_id = paper_id

\* insert_paper: INSERT OR IGNORE; fetched_at is datetime.now(), column picked
\* takes its default 0
insert_paper(conn, paper, now) ==
    IF paper_exists(conn, paper.paper_id) THEN conn ELSE Append(conn, NewRow(paper, now))

\* Mutant: the WHERE clause does not ask for an empty oa_url.
update_oa_url_Overwrites(conn, paper_id, oa_url) ==
    IF oa_url = <<>> THEN conn
    ELSE [i \in DOMAIN conn |->
            IF conn[i].paper_id = paper_id
            THEN [conn[i] EXCEPT !.oa_url = oa_url] ELSE conn[i]]

\* update_oa_url: UPDATE papers SET oa_url = ? WHERE paper_id = ? AND
\* (oa_url IS NULL OR oa_url = ''), only for a non-empty oa_url
update_oa_url(conn, paper_id, oa_url) ==
    IF oa_url = <<>> THEN conn
    ELSE [i \in DOMAIN conn |->
            IF conn[i].paper_id = paper_id /\ conn[i].oa_url = <<>>
            THEN [conn[i] EXCEPT !.oa_url = oa_url] ELSE conn[i]]

\* The columns get_unpicked_papers and get_recent_papers select (picked and
\* fetched_at are not among them).
RowDict(row) ==
    [paper_id |-> row.paper_id, title |-> row.title, authors |-> row.authors,
     abstract |-> row.abstract, journal |-> row.journal, oa_url |-> row.oa_url,
     relevant |-> row.relevant]

\* datetime.now(), in days, and the day before which datetime has no value:
\* now - timedelta(days) raises OverflowError when it would fall before it.
Today == 10

DateMin == 0

\* get_recent_papers: SELECT ... WHERE fetched_at >= now - days
RECURSIVE get_recent_papers(_, _, _)
get_recent_papers(conn, days, now) ==
    IF conn = <<>> THEN <<>>
    ELSE (IF Head(conn).fetched_at >= now - days THEN <<RowDict(Head(conn))>> ELSE <<>>)
         \o get_recent_papers(Tail(conn), days, now)

RECURSIVE UnpickedRows(_)
UnpickedRows(conn) ==
    IF conn = <<>> THEN <<>>
    ELSE (IF Head(conn).picked = 0 THEN <<RowDict(Head(conn))>> ELSE <<>>)
         \o UnpickedRows(Tail(conn))

\* Mutant: the WHERE picked = 0 clause is missing.
get_unpicked_papers_NoWhere(conn) == [i \in DOMAIN conn |-> RowDict(conn[i])]

\* get_unpicked_papers: SELECT ... WHERE picked = 0, in the table's row order
get_unpicked_papers(conn) == UnpickedRows(conn)

\* Mutant: the UPDATE also clears the relevant flag of the rows it marks.
mark_as_picked_ClearsRelevant(conn, paper_ids) ==
    [i \in DOMAIN conn |->
        IF conn[i].paper_id \in paper_ids
        THEN [conn[i] EXCEPT !.picked = 1, !.relevant = 0] ELSE conn[i]]

\* Mutant: the UPDATE has no WHERE clause.
mark_as_picked_AllRows(conn, paper_ids) ==
    [i \in DOMAIN conn |-> [conn[i] EXCEPT !.picked = 1]]

\* Mutant: the commit is missing, the connection closes and the update is lost.
mark_as_picked_NoCommit(conn, paper_ids) == conn

\* mark_as_picked: UPDATE papers SET picked = 1 WHERE paper_id = ?, then commit
mark_as_picked(conn, paper_ids) ==
    [i \in DOMAIN conn |->
        IF conn[i].paper_id \in paper_ids THEN [conn[i] EXCEPT !.picked = 1] ELSE conn[i]]

\* SELECT COUNT(*) FROM papers WHERE picked = 0
CountUnpicked(conn) == Cardinality({i \in DOMAIN conn : conn[i].picked = 0})

Ids(rows) == {rows[i].paper_id : i \in DOMAIN rows}

UnpickedIds(conn) == {conn[i].paper_id : i \in {j \in DOMAIN conn : conn[j].picked = 0}}

PickedIds(conn) == {conn[i].paper_id : i \in {j \in DOMAIN conn : conn[j].picked = 1}}

\* ------------------------------------------------------------------ inputs
\* cfg["keywords"], the ingestion keywords of config.yaml
Keywords == << <<"a">> >>

\* (title, authors, journal, oa_url) of the entries the feeds deliver.  The
\* first and the fourth have the same id (same title and authors up to case);
\* the first and the third differ in id and have the same title up to case.
\* The first comes without an open-access URL, the fourth and the fifth with one.
FeedEntries ==
    {<< <<"a">>, <<>>, "Econometrica", <<>> >>,
     << <<"b">>, <<"x">>, "NBER Working Paper", <<>> >>,
     << <<"A">>, <<"x">>, "Econometrica", <<>> >>,
     << <<"A">>, <<>>, "Nature", <<"u">> >>,
     << <<"c">>, <<>>, "Econometrica", <<"w">> >>}

\* What fetch_rss / fetch_openalex_journal / fetch_nber deliver: the title is
\* stripped, the id and the relevance flag are computed by the fetcher.
FetchedPapers ==
    {[paper_id |-> make_id(e[1], e[2]), title |-> e[1], authors |-> e[2],
      abstract |-> <<>>, journal |-> e[3], oa_url |-> e[4],
      relevant |-> IF check_relevance(e[1], <<>>, Keywords) THEN 1 ELSE 0] :
        e \in FeedEntries}

\* What fetch_openalex_discovery delivers: the venue is the source's
\* display_name as the API gives it (null for a source without a name), and
\* relevant is 1.  The entry has the id of the last entry of FeedEntries.
DiscoveredPapers ==
    {[paper_id |-> make_id(<<"c">>, <<>>), title |-> <<"c">>, authors |-> <<>>,
      abstract |-> <<>>, journal |-> NULL, oa_url |-> <<"v">>, relevant |-> 1]}

\* Job-market candidates: the paper title is taken as scraped, not stripped;
\* run skips a candidate without a title.
JmpCandidates ==
    {[paper_title |-> t, name |-> <<"x">>, school |-> <<"S">>, abstract |-> <<>>] :
        t \in {<<"A", " ">>, <<>>}}

\* The weekly_picks section of config.yaml.  min_score is in score units.
FieldKeywords == [labor |-> << <<"a">> >>]

\* (min_score, weights) as the user sets them: the weights map names only
\* some of the weights, the others take score_paper's defaults.
Tunings == {<<40, [nber |-> 18]>>, <<0, [journal_top5 |-> 10]>>}

PicksConfigs ==
    {[num_papers |-> n, min_score |-> t[1], weights |-> t[2],
      field_keywords |-> FieldKeywords] : n \in 1..MaxNum, t \in Tunings}

\* ------------------------------------------------------------------ state
Procs == {1, 2}

VARIABLES
    db,          \* table papers, in row order
    config,      \* the weekly_picks section of config.yaml
    pc,          \* where each invocation of pick_weekly_reading stands
    picks_cfg,   \* the configuration the invocation loaded
    pool,        \* what get_unpicked_papers returned to it
    papers,      \* its list `papers` (filtered, then scored and sorted)
    ineligible,  \* its list `ineligible`
    unique,      \* its list `unique`
    below,       \* its list `below`
    eligible,    \* its list `eligible`
    selected,    \* its list `selected`
    runners,     \* its list `runners`
    unpicked_remaining,  \* the backlog count it read back
    ret,         \* what it returned: (markdown, output path, selected)
    again,       \* the current run started right after a completed one, nothing stored or reconfigured between
    prevSelected,\* ids selected by the run before the current one
    prevRunners, \* ids of the runners-up of the run before the current one
    overlap,     \* the invocation started while another was between read and commit
    lookback_days,  \* the argument each invocation was called with
    new_count,   \* its count of the papers fetched within the lookback window
    header,      \* the numbers the header line of its reading list states
    master,      \* the master script: its flags, where it stands, what it has run
    dl           \* download_papers: its input, its loop index, its two lists

vars ==
    <<db, config, pc, picks_cfg, pool, papers, ineligible, unique, below, eligible,
      selected, runners, unpicked_remaining, ret, again, prevSelected,
      prevRunners, overlap, lookback_days, new_count, header, master, dl>>

locals ==
    <<picks_cfg, pool, papers, ineligible, unique, below, eligible, selected, runners,
      unpicked_remaining, ret, lookback_days, new_count, header>>

ghosts == <<again, prevSelected, prevRunners, overlap>>

\* The state of the scripts around the selection.
scripts == <<master, dl>>

\* The master script is not running; download_papers has not been called.
MasterOff ==
    [pc |-> "off", args |-> {}, days |-> 0, ran |-> <<>>, picks_md |-> "", picks_path |-> "",
     selected_papers |-> <<>>, summary |-> <<>>]

NoDownload ==
    [pc |-> "off", enabled |-> TRUE, papers |-> <<>>, i |-> 0, downloaded |-> <<>>,
     manual |-> <<>>, tried |-> <<>>]

NoReturn == [md |-> "", path |-> "", selected |-> <<>>]

\* An invocation between its read of the pool and its last commit.
MidRun(r) == pc[r] \in {"gate", "score", "select"}

Running(r) == MidRun(r) \/ pc[r] = "write"

\* The locals of an invocation that has not read anything.
Fresh ==
    /\ pc' = [r \in Procs |-> "idle"]
    /\ picks_cfg' = [r \in Procs |-> <<>>]
    /\ pool' = [r \in Procs |-> <<>>]
    /\ papers' = [r \in Procs |-> <<>>]
    /\ ineligible' = [r \in Procs |-> <<>>]
    /\ unique' = [r \in Procs |-> <<>>]
    /\ below' = [r \in Procs |-> <<>>]
    /\ eligible' = [r \in Procs |-> <<>>]
    /\ selected' = [r \in Procs |-> <<>>]
    /\ runners' = [r \in Procs |-> <<>>]
    /\ unpicked_remaining' = [r \in Procs |-> 0]
    /\ ret' = [r \in Procs |-> NoReturn]
    /\ again' = FALSE
    /\ prevSelected' = {}
    /\ prevRunners' = {}
    /\ overlap' = [r \in Procs |-> FALSE]
    /\ lookback_days' = [r \in Procs |-> 0]
    /\ new_count' = [r \in Procs |-> 0]
    /\ header' = [r \in Procs |-> <<>>]

Init ==
    /\ db = <<>>
    /\ config \in PicksConfigs
    /\ pc = [r \in Procs |-> "idle"]
    /\ picks_cfg = [r \in Procs |-> <<>>]
    /\ pool = [r \in Procs |-> <<>>]
    /\ papers = [r \in Procs |-> <<>>]
    /\ ineligible = [r \in Procs |-> <<>>]
    /\ unique = [r \in Procs |-> <<>>]
    /\ below = [r \in Procs |-> <<>>]
    /\ eligible = [r \in Procs |-> <<>>]
    /\ selected = [r \in Procs |-> <<>>]
    /\ runners = [r \in Procs |-> <<>>]
    /\ unpicked_remaining = [r \in Procs |-> 0]
    /\ ret = [r \in Procs |-> NoReturn]
    /\ again = FALSE
    /\ prevSelected = {}
    /\ prevRunners = {}
    /\ overlap = [r \in Procs |-> FALSE]
    /\ lookback_days = [r \in Procs |-> 0]
    /\ new_count = [r \in Procs |-> 0]
    /\ header = [r \in Procs |-> <<>>]
    /\ master = MasterOff
    /\ dl = NoDownload

\* ------------------------------------------------------------------ ingestion
\* Fetching and editing the configuration happen between invocations of the
\* selection; the locals of the invocations that have ended are gone by then.
NoneRunning == \A r \in Procs : ~Running(r)

\* The body of the loops of 01_fetch.run: insert the paper unless its id is
\* stored, then backfill the open-access URL.
StoreFetched(conn, p, now) ==
    update_oa_url(IF ~paper_exists(conn, p.paper_id) THEN insert_paper(conn, p, now) ELSE conn,
                  p.paper_id, Get(p, "oa_url", <<>>))

\* 01_fetch.run, one paper of a feed: insert it unless its id is stored, commit.
FetchPaper(p) ==
    /\ NoneRunning
    /\ paper_exists(db, p.paper_id) \/ Len(db) < MaxPapers
    /\ db' = StoreFetched(db, p, Today)
    /\ Fresh
    /\ UNCHANGED <<config, scripts>>

\* 05_fetch_jmp._store_candidate: nothing is stored for a candidate without
\* a paper title or with a stored id.
_store_candidate(conn, candidate, now) ==
    LET title == candidate.paper_title
        paper_id == make_id(title, candidate.name)
        paper == [paper_id |-> paper_id, title |-> title,
                  authors |-> candidate.name \o <<" ", "(">> \o candidate.school \o <<")">>,
                  abstract |-> candidate.abstract, journal |-> "Job Market Paper",
                  oa_url |-> <<>>, relevant |-> 1]
    IN  IF title # <<>> /\ ~paper_exists(conn, paper_id)
        THEN insert_paper(conn, paper, now) ELSE conn

\* 05_fetch_jmp._store_candidate, then the commit of run
StoreCandidate(c) ==
    LET after == _store_candidate(db, c, Today)
    IN  /\ NoneRunning
        /\ after = db \/ Len(db) < MaxPapers
        /\ db' = after
        /\ Fresh
        /\ UNCHANGED <<config, scripts>>

\* The user edits the weekly_picks section of config.yaml between runs.
SetConfig(c) ==
    /\ NoneRunning
    /\ c # config
    /\ config' = c
    /\ Fresh
    /\ UNCHANGED <<db, scripts>>

\* ------------------------------------------------------------------ selection
\* p["_score"] = ...
WithScore(p, s) ==
    [k \in DOMAIN p \cup {"_score"} |-> IF k = "_score" THEN s ELSE p[k]]

\* Mutant: x goes in front of the elements whose score equals its own.
InsertDesc_BeforeEqual(t, x) ==
    LET k == Cardinality({i \in DOMAIN t : t[i]._score > x._score})
    IN  SubSeq(t, 1, k) \o <<x>> \o SubSeq(t, k + 1, Len(t))

\* list.sort(key=_score, reverse=True), one insertion: x goes behind every
\* element whose score is at least its own (the sort is stable)
InsertDesc(t, x) ==
    LET k == Cardinality({i \in DOMAIN t : t[i]._score >= x._score})
    IN  SubSeq(t, 1, k) \o <<x>> \o SubSeq(t, k + 1, Len(t))

\* Mutant: the list is not sorted before the dedup loop.
SortByScore_None(s) == s

RECURSIVE SortByScore(_)
SortByScore(s) ==
    IF s = <<>> THEN <<>>
    ELSE InsertDesc(SortByScore(SubSeq(s, 1, Len(s) - 1)), s[Len(s)])

\* p["title"].strip().lower()
title_norm(p) == Lower(Strip(p.title))

\* The dedup loop: keep the first paper of each normalised title
RECURSIVE DedupFrom(_, _)
DedupFrom(s, seen_titles) ==
    IF s = <<>> THEN <<>>
    ELSE IF title_norm(Head(s)) \in seen_titles
         THEN DedupFrom(Tail(s), seen_titles)
         ELSE <<Head(s)>> \o DedupFrom(Tail(s), seen_titles \cup {title_norm(Head(s))})

\* Mutant: the titles are compared as stored, not stripped and lower-cased.
RECURSIVE DedupRawFrom(_, _)
DedupRawFrom(s, seen_titles) ==
    IF s = <<>> THEN <<>>
    ELSE IF Head(s).title \in seen_titles
         THEN DedupRawFrom(Tail(s), seen_titles)
         ELSE <<Head(s)>> \o DedupRawFrom(Tail(s), seen_titles \cup {Head(s).title})

Dedup_RawTitle(s) == DedupRawFrom(s, {})

Dedup(s) == DedupFrom(s, {})

\* Mutant: the list kept for scoring is not filtered.
RECURSIVE FilterEligible_KeepAll(_, _)
FilterEligible_KeepAll(s, want) ==
    IF s = <<>> THEN <<>>
    ELSE (IF want \/ ~_is_eligible(Head(s).journal) THEN <<Head(s)>> ELSE <<>>)
         \o FilterEligible_KeepAll(Tail(s), want)

\* [p for p in papers if (not) _is_eligible(p["journal"])]
RECURSIVE FilterEligible(_, _)
FilterEligible(s, want) ==
    IF s = <<>> THEN <<>>
    ELSE (IF _is_eligible(Head(s).journal) = want THEN <<Head(s)>> ELSE <<>>)
         \o FilterEligible(Tail(s), want)

\* [p for p in unique if p["_score"] < min_score]; min_score is in score units
RECURSIVE BelowThreshold(_, _)
BelowThreshold(s, min_score) ==
    IF s = <<>> THEN <<>>
    ELSE (IF Head(s)._score < 100 * min_score THEN <<Head(s)>> ELSE <<>>)
         \o BelowThreshold(Tail(s), min_score)

\* Mutant: the comparison is turned round.
RECURSIVE AtLeastThreshold_Flipped(_, _)
AtLeastThreshold_Flipped(s, min_score) ==
    IF s = <<>> THEN <<>>
    ELSE (IF Head(s)._score <= 100 * min_score THEN <<Head(s)>> ELSE <<>>)
         \o AtLeastThreshold_Flipped(Tail(s), min_score)

\* [p for p in unique if p["_score"] >= min_score]
RECURSIVE AtLeastThreshold(_, _)
AtLeastThreshold(s, min_score) ==
    IF s = <<>> THEN <<>>
    ELSE (IF Head(s)._score >= 100 * min_score THEN <<Head(s)>> ELSE <<>>)
         \o AtLeastThreshold(Tail(s), min_score)

\* s[a:b] for 0 <= a <= b
Slice(s, a, b) == SubSeq(s, a + 1, Min(b, Len(s)))

\* The runner-up list holds the next 7.
RunnersUp == 7

\* Mutant: the slice is missing, every survivor is selected.
TakeSelected_NoSlice(elig, num_papers) == elig

\* Mutant: the papers another invocation has picked since the pool was read
\* are skipped, so the store decides the selection along with the pool.
RECURSIVE StillUnpicked(_)
StillUnpicked(s) ==
    IF s = <<>> THEN <<>>
    ELSE (IF Head(s).paper_id \in UnpickedIds(db) THEN <<Head(s)>> ELSE <<>>)
         \o StillUnpicked(Tail(s))

TakeSelected_Unpicked(elig, num_papers) == Slice(StillUnpicked(elig), 0, num_papers)

\* selected = eligible[:num_papers]
TakeSelected(elig, num_papers) == Slice(elig, 0, num_papers)

\* Mutant: the runner-up slice starts one place late.
TakeRunners_OffByOne(elig, num_papers) ==
    Slice(elig, num_papers + 1, num_papers + 1 + RunnersUp)

\* runners = eligible[num_papers : num_papers + 7]
TakeRunners(elig, num_papers) == Slice(elig, num_papers, num_papers + RunnersUp)

\* Mutant: the final mark_as_picked is given no id.
SelectedIds_None(sel) == {}

\* Mutant: the final mark_as_picked is also given the ids of the stored
\* papers that share a normalised title with a selected paper.
SelectedIds_WithTwins(sel) ==
    {db[i].paper_id : i \in {j \in DOMAIN db :
        \E k \in DOMAIN sel : title_norm(db[j]) = title_norm(sel[k])}}

\* The ids the final mark_as_picked is given
SelectedIds(sel) == Ids(sel)

\* Mutant: the threshold's mark_as_picked is given no id.
BelowIds_None(bel) == {}

\* The ids the threshold's mark_as_picked is given
BelowIds(bel) == Ids(bel)

Return(r, md, path, sel) ==
    /\ ret' = [ret EXCEPT ![r] = [md |-> md, path |-> path, selected |-> sel]]
    /\ pc' = [pc EXCEPT ![r] = "done"]

\* The lookback of a run started without --days.
LookbackDefault == 7

\* Lines 173-194: load the config, open the store, read the unpicked papers,
\* count the recent ones.  The lookback is subtracted from the present date
\* after the pool was found non-empty: OverflowError when the result is no date.
ReadPool(r, days) ==
    LET rows == get_unpicked_papers(db)
        raises == rows # <<>> /\ Today - days < DateMin
    IN  /\ ~Running(r)
        /\ lookback_days' = [lookback_days EXCEPT ![r] = days]
        /\ new_count' = [new_count EXCEPT ![r] =
                IF rows = <<>> \/ raises THEN 0
                ELSE Len(get_recent_papers(db, days, Today))]
        /\ header' = [header EXCEPT ![r] = <<>>]
        /\ picks_cfg' = [picks_cfg EXCEPT ![r] = config]
        /\ pool' = [pool EXCEPT ![r] = rows]
        /\ papers' = [papers EXCEPT ![r] = rows]
        /\ ineligible' = [ineligible EXCEPT ![r] = <<>>]
        /\ unique' = [unique EXCEPT ![r] = <<>>]
        /\ below' = [below EXCEPT ![r] = <<>>]
        /\ eligible' = [eligible EXCEPT ![r] = <<>>]
        /\ selected' = [selected EXCEPT ![r] = <<>>]
        /\ runners' = [runners EXCEPT ![r] = <<>>]
        /\ unpicked_remaining' = [unpicked_remaining EXCEPT ![r] = 0]
        /\ again' = (pc[r] = "done")
        /\ prevSelected' = IF pc[r] = "done" THEN Ids(selected[r]) ELSE {}
        /\ prevRunners' = IF pc[r] = "done" THEN Ids(runners[r]) ELSE {}
        /\ overlap' = [overlap EXCEPT ![r] = \E o \in Procs \ {r} : MidRun(o)]
        /\ IF rows = <<>>
           THEN Return(r, "No new papers this week.", "", <<>>)
           ELSE /\ pc' = [pc EXCEPT ![r] = IF raises THEN "crashed" ELSE "gate"]
                /\ ret' = [ret EXCEPT ![r] = NoReturn]
        /\ UNCHANGED <<db, config, scripts>>

\* Lines 196-208: the eligibility gate.  The list comprehension of line 197
\* raises TypeError at a paper whose venue is NULL: the invocation ends there,
\* before anything is marked.
Gate(r) ==
    LET inel == FilterEligible(papers[r], FALSE)
        kept == FilterEligible(papers[r], TRUE)
    IN  /\ pc[r] = "gate"
        /\ IF \E i \in DOMAIN papers[r] : _is_eligible_raises(papers[r][i].journal)
           THEN /\ pc' = [pc EXCEPT ![r] = "crashed"]
                /\ UNCHANGED <<db, ineligible, papers, ret>>
           ELSE /\ ineligible' = [ineligible EXCEPT ![r] = inel]
                /\ db' = IF inel # <<>> THEN mark_as_picked(db, Ids(inel)) ELSE db
                /\ papers' = [papers EXCEPT ![r] = kept]
                /\ IF kept = <<>>
                   THEN Return(r, "No eligible papers this week.", "", <<>>)
                   ELSE /\ pc' = [pc EXCEPT ![r] = "score"]
                        /\ UNCHANGED ret
        /\ UNCHANGED <<config, picks_cfg, pool, unique, below, eligible, selected,
                       runners, unpicked_remaining, ghosts, lookback_days,
                       new_count, header, scripts>>

\* Lines 210-237: score, sort, deduplicate by title, apply the threshold.
Threshold(r) ==
    LET cfg == picks_cfg[r]
        weights == Get(cfg, "weights", <<>>)
        min_score == Get(cfg, "min_score", 20)
        scored == [i \in DOMAIN papers[r] |->
                      WithScore(papers[r][i], score_paper(papers[r][i], cfg, weights))]
        sorted == SortByScore(scored)
        uniq == Dedup(sorted)
        bel == BelowThreshold(uniq, min_score)
        elig == AtLeastThreshold(uniq, min_score)
    IN  /\ pc[r] = "score"
        /\ papers' = [papers EXCEPT ![r] = sorted]
        /\ unique' = [unique EXCEPT ![r] = uniq]
        /\ below' = [below EXCEPT ![r] = bel]
        /\ db' = IF bel # <<>> THEN mark_as_picked(db, BelowIds(bel)) ELSE db
        /\ eligible' = [eligible EXCEPT ![r] = elig]
        /\ IF elig = <<>>
           THEN Return(r, "No papers above the relevance threshold this week.", "", <<>>)
           ELSE /\ pc' = [pc EXCEPT ![r] = "select"]
                /\ UNCHANGED ret
        /\ UNCHANGED <<config, picks_cfg, pool, ineligible, selected, runners,
                       unpicked_remaining, ghosts, lookback_days, new_count, header,
                       scripts>>

\* Lines 239-246: take the top num_papers, mark them, read the backlog count.
Select(r) ==
    LET num_papers == Get(picks_cfg[r], "num_papers", 7)
        sel == TakeSelected(eligible[r], num_papers)
        after == mark_as_picked(db, SelectedIds(sel))
    IN  /\ pc[r] = "select"
        /\ selected' = [selected EXCEPT ![r] = sel]
        /\ db' = after
        /\ unpicked_remaining' = [unpicked_remaining EXCEPT ![r] = CountUnpicked(after)]
        /\ pc' = [pc EXCEPT ![r] = "write"]
        /\ UNCHANGED <<config, picks_cfg, pool, papers, ineligible, unique, below,
                       eligible, runners, ret, ghosts, lookback_days, new_count,
                       header, scripts>>

\* Lines 262-266, the header line: "{num_papers} papers selected from
\* {len(papers)} unpicked candidates ({new_count} new this week)" and the
\* backlog note.
HeaderLine(num_papers, candidates, new, remaining) ==
    [papers_selected |-> num_papers, candidates |-> Len(candidates),
     new_this_week |-> new, backlog |-> remaining]

\* Lines 248-331: format the list (with the runners-up), write the file, return.
WriteList(r) ==
    LET num_papers == Get(picks_cfg[r], "num_papers", 7)
    IN  /\ pc[r] = "write"
        /\ runners' = [runners EXCEPT ![r] = TakeRunners(eligible[r], num_papers)]
        /\ header' = [header EXCEPT ![r] = HeaderLine(num_papers, papers[r], new_count[r],
                                                      unpicked_remaining[r])]
        /\ Return(r, "list", "reading.md", selected[r])
        /\ UNCHANGED <<db, config, picks_cfg, pool, papers, ineligible, unique, below,
                       eligible, selected, unpicked_remaining, ghosts, lookback_days,
                       new_count, scripts>>

\* A store statement raises (sqlite3.Error): the invocation ends there; what
\* earlier mark_as_picked calls committed stays committed.
Fail(r) ==
    /\ MidRun(r)
    /\ pc' = [pc EXCEPT ![r] = "failed"]
    /\ UNCHANGED <<db, config, locals, ghosts, scripts>>

\* Writing the reading-list file raises (OSError from mkdir or write_text):
\* the invocation ends without returning; the store was closed before, with
\* the selection committed.
WriteFail(r) ==
    /\ pc[r] = "write"
    /\ pc' = [pc EXCEPT ![r] = "failed"]
    /\ UNCHANGED <<db, config, locals, ghosts, scripts>>

Step(r) ==
    \/ ReadPool(r, LookbackDefault)
    \/ Gate(r)
    \/ Threshold(r)
    \/ Select(r)
    \/ WriteList(r)
    \/ Fail(r)
    \/ WriteFail(r)

Ingest ==
    \/ \E p \in FetchedPapers \cup DiscoveredPapers : FetchPaper(p)
    \/ \E c \in JmpCandidates : StoreCandidate(c)

Reconfigure == \E c \in PicksConfigs : SetConfig(c)

\* One invocation at a time (the master script, a weekly cron job).
Next ==
    \/ Step(1)
    \/ Ingest
    \/ Reconfigure

Spec == Init /\ [][Next]_vars

\* Two invocations against the same store, with no lock between them (two
\* cron jobs, or a manual run beside the scheduled one), each followed from
\* its start to its return.  The store is filled before the first of them starts.
ConcStep(r) ==
    \/ pc[r] = "idle" /\ ReadPool(r, LookbackDefault)
    \/ Gate(r)
    \/ Threshold(r)
    \/ Select(r)
    \/ WriteList(r)

NextConc ==
    \/ \E r \in Procs : ConcStep(r)
    \/ (\A r \in Procs : pc[r] = "idle") /\ Ingest

SpecConc == Init /\ [][NextConc]_vars

\* ------------------------------------------------------------------ a first fetch
\* Selection runs over the stock a first fetch leaves behind: the store holds
\* the first entries of the feeds, all unpicked, and the selection is run week
\* after week with nothing fetched between.
Rep(n, c) == [j \in 1..n |-> c]

\* Every fifth entry repeats the title of the entry before it in capitals,
\* under another author; every third title holds the ingestion keyword.
BacklogTitle(i) ==
    LET k == IF i % 5 = 0 THEN i - 1 ELSE i
        up == i % 5 = 0
    IN  Rep(k, IF up THEN "B" ELSE "b")
        \o (IF k % 3 = 0 THEN <<IF up THEN "A" ELSE "a">> ELSE <<>>)

BacklogAuthors(i) == IF i % 5 = 0 THEN <<"x">> ELSE <<>>

\* The journal the entry's feed is configured with.
BacklogVenue(i) ==
    CASE i % 7 = 1 -> "Econometrica"
      [] i % 7 = 2 -> "AEJ: Applied Economics"
      [] i % 7 = 3 -> "NBER Working Paper"
      [] i % 7 = 4 -> "Journal of Labor Economics"
      [] i % 7 = 5 -> "Job Market Paper"
      [] i % 7 = 6 -> "Econometrica"
      [] OTHER -> "Nature"

BacklogPaper(i) ==
    [paper_id |-> make_id(BacklogTitle(i), BacklogAuthors(i)),
     title |-> BacklogTitle(i), authors |-> BacklogAuthors(i),
     abstract |-> <<>>, journal |-> BacklogVenue(i),
     oa_url |-> IF i % 2 = 0 THEN <<"u">> ELSE <<>>,
     relevant |-> IF check_relevance(BacklogTitle(i), <<>>, Keywords) THEN 1 ELSE 0]

\* The entries came in over the four days up to today.
BacklogFetchedAt(i) == Today - (i % 4)

\* The store after the fetch run has gone through the first n entries.
RECURSIVE BacklogStore(_)
BacklogStore(n) ==
    IF n = 0 THEN <<>>
    ELSE insert_paper(BacklogStore(n - 1), BacklogPaper(n), BacklogFetchedAt(n))

\* structural_keywords of the weekly_picks section
StructuralKeywords == <<Rep(1, "b"), Rep(2, "b"), Rep(3, "b"), Rep(4, "b"), Rep(5, "b")>>

\* weekly_picks sections with keys left out (the code's defaults apply), with
\* a weight named whose keyword list is not, and with a negative weight.
BacklogConfigs ==
    {[num_papers |-> n, min_score |-> 0,
      weights |-> [journal_top5 |-> 10, novel_data |-> 15],
      field_keywords |-> FieldKeywords] : n \in 0..MaxNum}
    \cup {[num_papers |-> n] : n \in 0..MaxNum}
    \cup {[min_score |-> 0, structural_keywords |-> StructuralKeywords],
          [num_papers |-> 1, min_score |-> 0, weights |-> [journal_top5 |-> -5]],
          [min_score |-> 0, weights |-> [jmp |-> 15]]}

InitBacklog ==
    /\ \E n \in 0..MaxBacklog : db = BacklogStore(n)
    /\ config \in BacklogConfigs
    /\ pc = [r \in Procs |-> "idle"]
    /\ picks_cfg = [r \in Procs |-> <<>>]
    /\ pool = [r \in Procs |-> <<>>]
    /\ papers = [r \in Procs |-> <<>>]
    /\ ineligible = [r \in Procs |-> <<>>]
    /\ unique = [r \in Procs |-> <<>>]
    /\ below = [r \in Procs |-> <<>>]
    /\ eligible = [r \in Procs |-> <<>>]
    /\ selected = [r \in Procs |-> <<>>]
    /\ runners = [r \in Procs |-> <<>>]
    /\ unpicked_remaining = [r \in Procs |-> 0]
    /\ ret = [r \in Procs |-> NoReturn]
    /\ again = FALSE
    /\ prevSelected = {}
    /\ prevRunners = {}
    /\ overlap = [r \in Procs |-> FALSE]
    /\ lookback_days = [r \in Procs |-> 0]
    /\ new_count = [r \in Procs |-> 0]
    /\ header = [r \in Procs |-> <<>>]
    /\ master = MasterOff
    /\ dl = NoDownload

NextBacklog ==
    \/ ReadPool(1, LookbackDefault)
    \/ Gate(1)
    \/ Threshold(1)
    \/ Select(1)
    \/ WriteList(1)

SpecBacklog == InitBacklog /\ [][NextBacklog]_vars

\* ------------------------------------------------------------------ a fetch run
\* (title, author string) of feed entries as the feed delivers them: the same
\* paper under other letter case, with blanks around the title or the author
\* string and with a doubled blank inside the title; another paper; an entry
\* without a title.
RawEntries ==
    {<< <<"a", " ", "b">>, <<"x">> >>,
     << <<"A", " ", " ", "B">>, <<"X">> >>,
     << <<" ", "a", " ", "b", " ">>, <<"x", " ">> >>,
     << <<"a", " ", "b">>, <<" ", "x">> >>,
     << <<"c">>, <<>> >>,
     << <<" ", "C">>, <<>> >>,
     << <<" ">>, <<"x">> >>}

\* fetch_rss, one entry of the feed of a journal: the title is stripped, the
\* author string is taken as it comes.
fetch_rss(entry) ==
    LET title == Strip(entry[1])
        authors == entry[2]
    IN  [paper_id |-> make_id(title, authors), title |-> title, authors |-> authors,
         abstract |-> <<>>, journal |-> "Econometrica", oa_url |-> <<>>,
         relevant |-> IF check_relevance(title, <<>>, Keywords) THEN 1 ELSE 0]

\* An entry without a title is skipped; the others go through the loop of run.
FetchEntry(entry) ==
    /\ Strip(entry[1]) # <<>>
    /\ FetchPaper(fetch_rss(entry))

NextFetch == \E entry \in RawEntries : FetchEntry(entry)

SpecFetch == Init /\ [][NextFetch]_vars

\* ------------------------------------------------------------------ the scorer alone
\* score_paper called on one paper: any venue name of the tier lists, venue
\* names outside them, a text that holds a keyword letter once to MaxHits
\* times, either value of the relevant flag.
ScoreVenues == ELIGIBLE_SOURCES \cup {"NBER Reporter", "Nature", "Unknown", ""}

ScoreTexts == {Rep(k, c) : k \in 1..MaxHits, c \in {"a", "b", "c", "d"}} \cup {<<"e">>}

ScorePapers ==
    {[paper_id |-> make_id(<<"T">>, <<>>), title |-> <<"T">>, authors |-> <<>>,
      abstract |-> t, journal |-> v, oa_url |-> <<>>, relevant |-> rel] :
        t \in ScoreTexts, v \in ScoreVenues, rel \in {0, 1}}

\* Keyword lists of the weekly_picks section: two field categories of three
\* keywords each, five structural, five novel-data and four
\* novel-measurement keywords.
ScoreKeywords ==
    [field_keywords |->
        [labor |-> <<Rep(1, "a"), Rep(2, "a"), Rep(3, "a")>>,
         micro |-> <<Rep(4, "a"), Rep(5, "a"), Rep(6, "a")>>],
     structural_keywords |-> StructuralKeywords,
     novel_data_keywords |-> <<Rep(1, "c"), Rep(2, "c"), Rep(3, "c"), Rep(4, "c"), Rep(5, "c")>>,
     novel_measurement_keywords |-> <<Rep(1, "D"), Rep(2, "d"), Rep(3, "d"), Rep(4, "d")>>]

\* The section without a weights map, and with every weight set.
ScoreConfigs ==
    {ScoreKeywords,
     [k \in DOMAIN ScoreKeywords \cup {"weights"} |->
        IF k = "weights"
        THEN [journal_top5 |-> 31, journal_top_field |-> 21, jmp |-> 16,
              journal_field |-> 14, nber |-> 19, field_match |-> 24,
              structural |-> 10, novel_data |-> 7, novel_measurement |-> 0,
              keyword_relevant |-> 5]
        ELSE ScoreKeywords[k]]}

InitScore ==
    /\ db = <<>>
    /\ config \in ScoreConfigs
    /\ pc = [r \in Procs |-> "idle"]
    /\ picks_cfg = [r \in Procs |-> IF r = 1 THEN config ELSE <<>>]
    /\ \E p \in ScorePapers : pool = [r \in Procs |-> IF r = 1 THEN <<p>> ELSE <<>>]
    /\ papers = [r \in Procs |-> <<>>]
    /\ ineligible = [r \in Procs |-> <<>>]
    /\ unique = [r \in Procs |-> <<>>]
    /\ below = [r \in Procs |-> <<>>]
    /\ eligible = [r \in Procs |-> <<>>]
    /\ selected = [r \in Procs |-> <<>>]
    /\ runners = [r \in Procs |-> <<>>]
    /\ unpicked_remaining = [r \in Procs |-> 0]
    /\ ret = [r \in Procs |-> NoReturn]
    /\ again = FALSE
    /\ prevSelected = {}
    /\ prevRunners = {}
    /\ overlap = [r \in Procs |-> FALSE]
    /\ lookback_days = [r \in Procs |-> 0]
    /\ new_count = [r \in Procs |-> 0]
    /\ header = [r \in Procs |-> <<>>]
    /\ master = MasterOff
    /\ dl = NoDownload

\* p["_score"] = score_paper(p, picks_cfg, weights)
ScoreCall ==
    LET p == pool[1][1]
        weights == Get(picks_cfg[1], "weights", <<>>)
    IN  /\ pc[1] = "idle"
        /\ papers' = [papers EXCEPT ![1] = <<WithScore(p, score_paper(p, picks_cfg[1], weights))>>]
        /\ pc' = [pc EXCEPT ![1] = "scored"]
        /\ UNCHANGED <<db, config, picks_cfg, pool, ineligible, unique, below, eligible,
                       selected, runners, unpicked_remaining, ret, ghosts,
                       lookback_days, new_count, header, scripts>>

SpecScore == InitScore /\ [][ScoreCall]_vars

\* ------------------------------------------------------------------ claims
\* C1: under serialized runs, with configuration changes and ingestion between
\* them, a paper whose picked flag is 1 keeps it, is not returned by a later
\* get_unpicked_papers and is not in the selection of a later run.
C1_PickedIsPermanent ==
    [][/\ PickedIds(db) \subseteq PickedIds(db')
       /\ \A r \in Procs :
            /\ pool'[r] # pool[r] => Ids(pool'[r]) \cap PickedIds(db) = {}
            /\ selected'[r] # selected[r] => Ids(selected'[r]) \cap PickedIds(db) = {}
      ]_vars

\* A second run in a row has selected papers while those the run before it
\* selected are picked.
C1_Witness ==
    /\ pc[1] = "done" /\ again
    /\ selected[1] # <<>> /\ prevSelected # {}
    /\ prevSelected \subseteq PickedIds(db)

\* The four sets of a run, as sets of ids.
StartIds(r) == Ids(pool[r])

\* C2: when a run has returned, the papers unpicked at its start are partitioned
\* into the ineligible ones it marked, the below-threshold ones it marked, the
\* ones it selected and the ones still unpicked; the backlog count it read
\* back is the size of the last set.
C2_BacklogConservation ==
    \A r \in Procs :
        pc[r] = "done" =>
            LET inel == Ids(ineligible[r])
                bel == Ids(below[r])
                sel == Ids(selected[r])
                rem == StartIds(r) \cap UnpickedIds(db)
            IN  /\ Cardinality(StartIds(r)) = Len(pool[r])
                /\ Cardinality(StartIds(r)) =
                       Cardinality(inel) + Cardinality(bel) + Cardinality(sel)
                       + Cardinality(rem)
                /\ inel \cap bel = {} /\ inel \cap sel = {} /\ bel \cap sel = {}
                /\ (inel \cup bel \cup sel) \cap rem = {}
                /\ (inel \cup bel \cup sel) \subseteq (StartIds(r) \cap PickedIds(db))
                /\ ret[r].path # "" =>
                       /\ unpicked_remaining[r] = Cardinality(rem)
                       /\ unpicked_remaining[r] = CountUnpicked(db)

\* A run has returned with a discarded ineligible paper, a selected paper and
\* a paper left in the backlog.
C2_Witness ==
    /\ pc[1] = "done" /\ ret[1].path # ""
    /\ ineligible[1] # <<>> /\ selected[1] # <<>> /\ unpicked_remaining[1] > 0

\* C3: the runners-up of a run that has returned are unpicked, the next step
\* leaves them unpicked, and a run that starts next reads them into its pool.
C3_RunnersStayUnpicked ==
    [][\A r \in Procs :
          pc[r] = "done" =>
              /\ Ids(runners[r]) \subseteq UnpickedIds(db)
              /\ Ids(runners[r]) \subseteq UnpickedIds(db')
              /\ again' => Ids(runners[r]) \subseteq Ids(pool'[r])
      ]_vars

\* A run started right after a run that had runners-up, and read them.
C3_Witness ==
    /\ again /\ prevRunners # {}
    /\ prevRunners \subseteq Ids(pool[1])

\* The score a run gives a paper, and the settings it loaded.
RunScore(r, p) == score_paper(p, picks_cfg[r], Get(picks_cfg[r], "weights", <<>>))

RunMin(r) == 100 * Get(picks_cfg[r], "min_score", 20)

RunNum(r) == Get(picks_cfg[r], "num_papers", 7)

\* The pool of run r is M eligible papers with distinct normalised titles,
\* all at or above min_score, and N < M <= N + 7.
ScenarioB(r) ==
    /\ \A i \in DOMAIN pool[r] :
          /\ _is_eligible(pool[r][i].journal)
          /\ RunScore(r, pool[r][i]) >= RunMin(r)
    /\ \A i, j \in DOMAIN pool[r] :
          i # j => title_norm(pool[r][i]) # title_norm(pool[r][j])
    /\ RunNum(r) < Len(pool[r])
    /\ Len(pool[r]) <= RunNum(r) + RunnersUp

\* C4 as stated: in that scenario the run returns N selected papers, M-N
\* runners-up and a remaining backlog count of 0.
C4_ScenarioB_Original ==
    \A r \in Procs :
        pc[r] = "done" /\ ScenarioB(r) =>
            /\ Len(ret[r].selected) = RunNum(r)
            /\ Len(runners[r]) = Len(pool[r]) - RunNum(r)
            /\ unpicked_remaining[r] = 0

\* C4, amended: in that scenario the run returns N selected papers and M-N
\* runners-up, and the remaining backlog count is M-N (the runners-up).
C4_ScenarioB ==
    \A r \in Procs :
        pc[r] = "done" /\ ScenarioB(r) =>
            /\ ret[r].path # ""
            /\ Len(ret[r].selected) = RunNum(r)
            /\ Len(runners[r]) = Len(pool[r]) - RunNum(r)
            /\ unpicked_remaining[r] = Len(pool[r]) - RunNum(r)
            /\ Ids(runners[r]) = UnpickedIds(db)

\* A run on three such papers has returned.
C4_Witness ==
    /\ pc[1] = "done" /\ ScenarioB(1)
    /\ Len(pool[1]) = 3

\* C5 as stated: a run right after a completed run, with the same config and
\* nothing ingested between them, returns an empty selection.
C5_SecondRunEmpty_Original ==
    \A r \in Procs : again /\ pc[r] = "done" => ret[r].selected = <<>>

\* C5, amended: such a second run returns no paper the first run selected;
\* its selection is empty exactly when every paper the first run left
\* unpicked scores below min_score, and is not empty when the first run had
\* runners-up.
C5_SecondRun ==
    \A r \in Procs :
        again /\ pc[r] = "done" =>
            /\ Ids(ret[r].selected) \cap prevSelected = {}
            /\ ret[r].selected = <<>> <=>
                   \A i \in DOMAIN pool[r] : RunScore(r, pool[r][i]) < RunMin(r)
            /\ prevRunners # {} => ret[r].selected # <<>>

\* The second run selected a runner-up of the first.
C5_Witness ==
    /\ again /\ pc[1] = "done"
    /\ Ids(ret[1].selected) \cap prevRunners # {}

\* C6: two invocations return a common paper only if one of them read the
\* pool while the other was between its read and its last commit; invocations
\* that do not overlap so return disjoint selections.
C6_DuplicateOnlyIfOverlap ==
    Ids(ret[1].selected) \cap Ids(ret[2].selected) # {} => overlap[1] \/ overlap[2]

\* Both invocations have returned, with a paper in both selections.
C6_Witness ==
    /\ pc[1] = "done" /\ pc[2] = "done"
    /\ Ids(ret[1].selected) \cap Ids(ret[2].selected) # {}

\* C7: a run that failed has persisted none of its status writes.
C7_AllOrNothing ==
    \A r \in Procs : pc[r] = "failed" => Ids(pool[r]) \cap PickedIds(db) = {}

\* The run is past the eligibility gate.
PastGate(r) == pc[r] \in {"score", "select", "write"} \/ (pc[r] = "done" /\ pool[r] # <<>>)

\* C8: when a run on a non-empty pool has ended, however it ended short of a
\* store failure, every paper of its pool whose venue fails the gate is picked.
C8_EveryRunDiscards ==
    \A r \in Procs :
        pc[r] \in {"done", "crashed"} =>
            \A i \in DOMAIN pool[r] :
                ~_is_eligible(pool[r][i].journal) =>
                    pool[r][i].paper_id \in PickedIds(db)

\* C8, for the runs that get past the gate: every paper of the pool whose
\* venue fails the gate is marked picked and is not among the papers the run
\* scores, whether the run selects anything or not.
C8_IneligibleDiscarded ==
    \A r \in Procs :
        PastGate(r) =>
            \A i \in DOMAIN pool[r] :
                ~_is_eligible(pool[r][i].journal) =>
                    /\ pool[r][i].paper_id \in PickedIds(db)
                    /\ pool[r][i].paper_id \in Ids(ineligible[r])
                    /\ pool[r][i].paper_id \notin Ids(papers[r])

\* A run discarded its ineligible papers and returned without a selection.
C8_Witness ==
    /\ pc[1] = "done" /\ ret[1].md = "No eligible papers this week."
    /\ ineligible[1] # <<>>
    /\ Ids(ineligible[1]) \subseteq PickedIds(db)

\* The run got to the threshold step.
ReachedThreshold(r) ==
    \/ pc[r] \in {"select", "write"}
    \/ pc[r] = "done" /\ ret[r].md \in
           {"No papers above the relevance threshold this week.", "list"}

Output(r) == Ids(selected[r]) \cup Ids(runners[r])

\* C9 as stated: every eligible paper of the pool scoring below min_score is
\* marked picked and is outside the selection and the runners-up.
C9_BelowDiscarded_Original ==
    \A r \in Procs :
        ReachedThreshold(r) =>
            \A i \in DOMAIN pool[r] :
                _is_eligible(pool[r][i].journal) /\ RunScore(r, pool[r][i]) < RunMin(r) =>
                    /\ pool[r][i].paper_id \in PickedIds(db)
                    /\ pool[r][i].paper_id \notin Output(r)

\* C9, amended: every eligible paper of the pool that scores below min_score
\* and survived the title deduplication is marked picked; no below-threshold
\* paper, deduplicated away or not, is in the selection or the runners-up.
C9_BelowDiscarded ==
    \A r \in Procs :
        ReachedThreshold(r) =>
            \A i \in DOMAIN pool[r] :
                _is_eligible(pool[r][i].journal) /\ RunScore(r, pool[r][i]) < RunMin(r) =>
                    /\ pool[r][i].paper_id \in Ids(unique[r]) =>
                           /\ pool[r][i].paper_id \in PickedIds(db)
                           /\ pool[r][i].paper_id \in Ids(below[r])
                    /\ pool[r][i].paper_id \notin Output(r)

\* A run marked a below-threshold paper and left another one, dropped by the
\* deduplication, unpicked.
C9_Witness ==
    /\ pc[1] = "done" /\ below[1] # <<>>
    /\ Ids(below[1]) \subseteq PickedIds(db)
    /\ \E i \in DOMAIN pool[1] :
          /\ RunScore(1, pool[1][i]) < RunMin(1)
          /\ pool[1][i].paper_id \notin Ids(unique[1])
          /\ pool[1][i].paper_id \in UnpickedIds(db)

\* C10: of the scored papers with one normalised title, at most one is in the
\* selection and runners-up together, exactly one is kept by the
\* deduplication, and the kept one scores at least as much as each dropped one.
C10_DedupKeepsHighest ==
    \A r \in Procs :
        ReachedThreshold(r) =>
            \A i \in DOMAIN papers[r] :
                LET same == {j \in DOMAIN papers[r] :
                                title_norm(papers[r][j]) = title_norm(papers[r][i])}
                    kept == {j \in same : papers[r][j].paper_id \in Ids(unique[r])}
                IN  /\ Cardinality(kept) = 1
                    /\ Cardinality({j \in same : papers[r][j].paper_id \in Output(r)}) <= 1
                    /\ \A k \in kept : \A j \in same :
                           papers[r][k]._score >= papers[r][j]._score

\* A selected paper won over a paper of the same title (up to case and
\* blanks) that scores less and stood before it in the pool.
C10_Witness ==
    /\ pc[1] = "done"
    /\ \E i, j \in DOMAIN pool[1] :
          /\ j < i
          /\ pool[1][i].title # pool[1][j].title
          /\ title_norm(pool[1][i]) = title_norm(pool[1][j])
          /\ RunScore(1, pool[1][i]) > RunScore(1, pool[1][j])
          /\ pool[1][i].paper_id \in Ids(ret[1].selected)
          /\ pool[1][j].paper_id \notin Ids(unique[1])

\* C15: a run whose pool holds a paper with a null venue does not abort: it
\* goes past the gate or returns, as it does when the venue is an empty string.
C15_MalformedNeverAborts ==
    \A r \in Procs :
        (\E i \in DOMAIN pool[r] : pool[r][i].journal = NULL) => pc[r] # "crashed"

\* The normalised titles of the eligible papers of the pool that score at
\* least min_score: one survivor for each.
SurvivorTitles(r) ==
    {title_norm(pool[r][i]) :
        i \in {j \in DOMAIN pool[r] :
                  /\ _is_eligible(pool[r][j].journal)
                  /\ RunScore(r, pool[r][j]) >= RunMin(r)}}

\* C11: a run that has returned selected min(N, k) papers, k the number of
\* survivors; each selected paper is eligible, scores at least min_score and
\* at least as much as every survivor not selected; the runners-up are the
\* survivors behind the selection, in order, seven at most, none selected.
C11_SelectionSize ==
    \A r \in Procs :
        pc[r] = "done" =>
            LET k == Cardinality(SurvivorTitles(r))
                sel == ret[r].selected
            IN  /\ Len(eligible[r]) = k
                /\ Len(sel) = Min(RunNum(r), k)
                /\ \A i \in DOMAIN sel :
                      /\ sel[i].paper_id \in Ids(pool[r])
                      /\ _is_eligible(sel[i].journal)
                      /\ sel[i]._score = RunScore(r, sel[i])
                      /\ sel[i]._score >= RunMin(r)
                      /\ \A j \in DOMAIN eligible[r] :
                            eligible[r][j].paper_id \notin Ids(sel) =>
                                sel[i]._score >= eligible[r][j]._score
                /\ Len(runners[r]) = Min(RunnersUp, k - Len(sel))
                /\ sel \o runners[r] = SubSeq(eligible[r], 1, Len(sel) + Len(runners[r]))
                /\ Ids(runners[r]) \cap Ids(sel) = {}
                /\ Cardinality(Ids(sel) \cup Ids(runners[r])) = Len(sel) + Len(runners[r])

\* A run selected N papers and listed seven runners-up, with survivors left
\* over behind them.
C11_Witness ==
    /\ pc[1] = "done"
    /\ Len(ret[1].selected) = RunNum(1) /\ RunNum(1) >= 1
    /\ Len(runners[1]) = RunnersUp
    /\ Len(eligible[1]) > RunNum(1) + RunnersUp

MinScores == {0, 18, 20, 31, 40}

\* C13: for the deduplicated list of a run, the papers at or above a larger
\* min_score are among those at or above a smaller one; the run's own
\* survivors are those at or above the min_score it loaded.
C13_ThresholdMonotone ==
    \A r \in Procs :
        ReachedThreshold(r) =>
            /\ eligible[r] = AtLeastThreshold(unique[r], Get(picks_cfg[r], "min_score", 20))
            /\ \A m1, m2 \in MinScores :
                  m1 <= m2 =>
                      Ids(AtLeastThreshold(unique[r], m2))
                          \subseteq Ids(AtLeastThreshold(unique[r], m1))

\* A run's list loses papers at each of two raises of min_score.
C13_Witness ==
    /\ pc[1] = "select"
    /\ Len(AtLeastThreshold(unique[1], 40)) > 0
    /\ Len(AtLeastThreshold(unique[1], 40)) < Len(AtLeastThreshold(unique[1], 20))
    /\ Len(AtLeastThreshold(unique[1], 20)) < Len(AtLeastThreshold(unique[1], 0))
    /\ Len(eligible[1]) = Len(AtLeastThreshold(unique[1], 20))

\* C14: an invocation that starts when no stored paper is unpicked returns at
\* once with the 'no new papers' message, an empty output path and an empty
\* selection, and leaves the store as it was.
C14_EmptyPool ==
    [][\A r \in Procs :
          /\ picks_cfg'[r] # <<>> /\ ~Running(r)
          /\ UnpickedIds(db) = {}
          => /\ pc'[r] = "done"
             /\ ret'[r] = [md |-> "No new papers this week.", path |-> "", selected |-> <<>>]
             /\ db' = db
      ]_vars

\* An invocation found every stored paper picked and returned empty-handed.
C14_Witness ==
    /\ pc[1] = "done" /\ pool[1] = <<>>
    /\ db # <<>> /\ UnpickedIds(db) = {}
    /\ ret[1] = [md |-> "No new papers this week.", path |-> "", selected |-> <<>>]

\* The weights score_paper reads, with the value each takes when the weights
\* map does not name it.
WeightDefaults ==
    [journal_top5 |-> 30, journal_top_field |-> 20, jmp |-> 17, journal_field |-> 15,
     nber |-> 18, field_match |-> 25, structural |-> 20, novel_data |-> 15,
     novel_measurement |-> 15, keyword_relevant |-> 10]

\* The weights map of run r with every weight it does not name set to zero,
\* and with every such weight set to its default.
RunWeights(r) == Get(picks_cfg[r], "weights", <<>>)

ZeroFilled(r) == [k \in DOMAIN WeightDefaults |-> Get(RunWeights(r), k, 0)]

DefaultFilled(r) == [k \in DOMAIN WeightDefaults |-> Get(RunWeights(r), k, WeightDefaults[k])]

KeywordLists ==
    {"structural_keywords", "novel_data_keywords", "novel_measurement_keywords"}

\* The config of run r with every keyword list it does not name set to empty.
ListsFilled(r) ==
    [k \in DOMAIN picks_cfg[r] \cup KeywordLists \cup {"field_keywords"} |->
        Get(picks_cfg[r], k, <<>>)]

C17_OnlyPickedChanges ==
    [][(\E r \in Procs : picks_cfg'[r] # <<>>) =>
          /\ Len(db') = Len(db)
          /\ \A i \in DOMAIN db :
                /\ DOMAIN db'[i] = DOMAIN db[i]
                /\ "_score" \notin DOMAIN db'[i]
                /\ \A f \in DOMAIN db[i] \ {"picked"} : db'[i][f] = db[i][f]
                /\ db'[i].picked \in {0, 1}
                /\ db[i].picked <= db'[i].picked
      ]_vars

\* A run has returned a scored selection; the rows of the selected papers
\* are picked, hold no score, and one of them is still flagged relevant.
C17_Witness ==
    /\ pc[1] = "done" /\ ret[1].selected # <<>>
    /\ \A i \in DOMAIN ret[1].selected : "_score" \in DOMAIN ret[1].selected[i]
    /\ \E j \in DOMAIN db :
          /\ db[j].paper_id \in Ids(ret[1].selected)
          /\ db[j].picked = 1 /\ db[j].relevant = 1
          /\ "_score" \notin DOMAIN db[j]

\* Lower case, no blanks at either end, runs of blanks collapsed.
Norm(s) == CollapseWs(Strip(Lower(s)))

SamePaper(p, q) == Norm(p.title) = Norm(q.title) /\ Norm(p.authors) = Norm(q.authors)

\* C18: papers whose titles and author strings are equal up to letter case,
\* blanks at the ends and runs of blanks get the same paper_id, and the store
\* holds one row for them however often they are fetched.
C18_SamePaperOneRow ==
    \A i, j \in DOMAIN db :
        SamePaper(db[i], db[j]) => db[i].paper_id = db[j].paper_id /\ i = j

\* C19: every score a run computes is non-negative, and is the score
\* score_paper gives the paper under the run's config.
C19_ScoreNonNegative ==
    \A r \in Procs :
        ReachedThreshold(r) =>
            \A i \in DOMAIN papers[r] :
                /\ papers[r][i]._score = RunScore(r, papers[r][i])
                /\ papers[r][i]._score >= 0

\* C20: a run with num_papers >= 1 that has ended on a non-empty pool, however
\* it ended short of a store failure, has marked at least one paper of the
\* pool picked, so the backlog is smaller than when the run started.
C20_EveryRunConsumes ==
    \A r \in Procs :
        /\ pc[r] \in {"done", "crashed"}
        /\ pool[r] # <<>> /\ RunNum(r) >= 1
        => /\ Ids(pool[r]) \cap PickedIds(db) # {}
           /\ CountUnpicked(db) < Len(pool[r])

\* The venue tiers in the order the scorer tests them, each with the weight
\* it adds.
TierOrder == <<"journal_top5", "journal_top_field", "jmp", "journal_field", "nber">>

TierVenues ==
    [journal_top5 |-> TOP5, journal_top_field |-> TOP_FIELD, jmp |-> {"Job Market Paper"},
     journal_field |-> FIELD_JOURNALS, nber |-> {"NBER Working Paper", "NBER Reporter"}]

MatchedTiers(journal) == {i \in DOMAIN TierOrder : journal \in TierVenues[TierOrder[i]]}

FirstTier(journal) == CHOOSE i \in MatchedTiers(journal) : \A j \in MatchedTiers(journal) : i <= j

\* What the venue added to the score of the scored paper: its score less the
\* score of the same paper under a venue of no tier.
VenueBonus ==
    LET p == papers[1][1]
        q == [pool[1][1] EXCEPT !.journal = ""]
    IN  p._score - score_paper(q, picks_cfg[1], RunWeights(1))

\* C21: for every venue string the scorer adds the weight of the first
\* matching tier and of no other, and it adds one exactly when the venue
\* passes the eligibility gate; a venue of no tier is ineligible and adds
\* nothing.
C21_OneTierIffEligible ==
    pc[1] = "scored" =>
        LET journal == papers[1][1].journal IN
        /\ (_is_eligible(journal) <=> (MatchedTiers(journal) # {}))
        /\ (MatchedTiers(journal) = {} => VenueBonus = 0)
        /\ (MatchedTiers(journal) # {} =>
                VenueBonus = 100 * DefaultFilled(1)[TierOrder[FirstTier(journal)]])
        /\ Cardinality(MatchedTiers(journal)) <= 1

C21_Witness ==
    /\ pc[1] = "scored"
    /\ papers[1][1].journal = "NBER Reporter"
    /\ "weights" \in DOMAIN picks_cfg[1]
    /\ _is_eligible("NBER Reporter")
    /\ VenueBonus = 1900
    /\ papers[1][1].abstract = <<"e">> /\ papers[1][1].relevant = 0
    /\ papers[1][1]._score = 1900

\* The four keyword features of the scorer: the letter its keywords are
\* made of in ScoreKeywords, how many keywords it has there, its weight, its
\* cap and its divisor.
KeywordFeatures ==
    {[letter |-> "a", keywords |-> 6, weight |-> "field_match", cap |-> 5, divisor |-> 3],
     [letter |-> "b", keywords |-> 5, weight |-> "structural", cap |-> 4, divisor |-> 2],
     [letter |-> "c", keywords |-> 5, weight |-> "novel_data", cap |-> 4, divisor |-> 2],
     [letter |-> "d", keywords |-> 4, weight |-> "novel_measurement", cap |-> 3, divisor |-> 2]}

\* The score of the scored paper had its abstract been t.
ScoreWithText(t) ==
    score_paper([pool[1][1] EXCEPT !.abstract = t], picks_cfg[1], RunWeights(1))

\* C22: each keyword bonus is weight * min(hits, cap) / divisor with caps 5,
\* 4, 4, 3 and divisors 3, 2, 2, 2, the field hits being summed over the
\* categories; with non-negative weights one more hit never lowers the score,
\* and from the cap on it does not change the score.
C22_BonusSaturates ==
    pc[1] = "scored" =>
        \A f \in KeywordFeatures :
            LET p == papers[1][1]
                n == Len(p.abstract)
                hits == IF p.abstract[1] = f.letter THEN Min(n, f.keywords) ELSE 0
                w == DefaultFilled(1)[f.weight]
            IN  p.abstract[1] = f.letter =>
                    /\ w >= 0
                    /\ p._score - ScoreWithText(<<"e">>)
                            = Round2((6 \div f.divisor) * w * Min(hits, f.cap))
                    /\ ScoreWithText(Rep(n + 1, f.letter)) >= p._score
                    /\ (hits >= f.cap => ScoreWithText(Rep(n + 1, f.letter)) = p._score)

C22_Witness ==
    /\ pc[1] = "scored"
    /\ "weights" \notin DOMAIN picks_cfg[1]
    /\ papers[1][1].abstract = Rep(6, "a")
    /\ papers[1][1].journal = "" /\ papers[1][1].relevant = 0
    /\ papers[1][1]._score = 4167
    /\ ScoreWithText(Rep(5, "a")) = 4167
    /\ ScoreWithText(Rep(4, "a")) = 3333

\* The place of paper p in the list get_unpicked_papers returned to run r.
PoolIndex(r, p) == CHOOSE i \in DOMAIN pool[r] : pool[r][i].paper_id = p.paper_id

\* s is in descending score order, equal scores in the order of the pool.
InScoreOrder(r, s) ==
    \A i, j \in DOMAIN s :
        i < j => \/ s[i]._score > s[j]._score
                 \/ /\ s[i]._score = s[j]._score
                    /\ PoolIndex(r, s[i]) < PoolIndex(r, s[j])

\* C23: the scored list, the deduplicated list, the selection and the
\* runners-up are in descending score order with equal scores in the order
\* get_unpicked_papers returned them, and a paper the dedup loop dropped has
\* a kept paper of the same title ahead of it in that order.
C23_StableOrder ==
    unique[1] # <<>> =>
        /\ InScoreOrder(1, papers[1])
        /\ InScoreOrder(1, unique[1])
        /\ InScoreOrder(1, selected[1])
        /\ InScoreOrder(1, runners[1])
        /\ \A i \in DOMAIN papers[1] :
                papers[1][i].paper_id \notin Ids(unique[1]) =>
                    \E j \in 1..(i - 1) :
                        /\ papers[1][j].paper_id \in Ids(unique[1])
                        /\ title_norm(papers[1][j]) = title_norm(papers[1][i])

C23_Witness ==
    /\ pc[1] = "done"
    /\ Len(selected[1]) >= 4
    /\ \E i \in DOMAIN selected[1] :
            /\ i + 1 \in DOMAIN selected[1]
            /\ selected[1][i]._score = selected[1][i + 1]._score
            /\ selected[1][i].title # selected[1][i + 1].title
    /\ \E i, j \in DOMAIN papers[1] :
            /\ papers[1][i]._score = papers[1][j]._score
            /\ title_norm(papers[1][i]) = title_norm(papers[1][j])
            /\ papers[1][i].paper_id \in Ids(selected[1])
            /\ papers[1][j].paper_id \notin Ids(unique[1])
            /\ PoolIndex(1, papers[1][i]) < PoolIndex(1, papers[1][j])

\* ------------------------------------------------------------------ two lookbacks
\* Two invocations on one store and one configuration, called with lookbacks
\* of their own: both read the store before either goes on, so both read the
\* same rows.  The longest lookback reaches back before the first date.
LookbackChoices == {1, LookbackDefault, Today + 1}

NextLookback ==
    \/ \E r \in Procs, days \in LookbackChoices : pc[r] = "idle" /\ ReadPool(r, days)
    \/ /\ \A r \in Procs : pc[r] # "idle"
       /\ \E r \in Procs : Gate(r) \/ Threshold(r) \/ Select(r) \/ WriteList(r)

SpecLookback == InitBacklog /\ [][NextLookback]_vars

\* The invocation has ended: it returned or an exception ended it.
Ended(r) == pc[r] \in {"done", "crashed", "failed"}

\* C24: two runs on the same store and configuration that differ in
\* lookback_days only select the same papers, list the same runners-up and
\* mark the same papers.
C24_LookbackIndependent ==
    (Ended(1) /\ Ended(2)) =>
        /\ selected[1] = selected[2]
        /\ runners[1] = runners[2]
        /\ Ids(ineligible[1]) = Ids(ineligible[2])
        /\ Ids(below[1]) = Ids(below[2])
        /\ ret[1].selected = ret[2].selected

\* The same for lookbacks that stay within the dates datetime can hold.
C24_InRange ==
    (Ended(1) /\ Ended(2) /\ \A r \in Procs : Today - lookback_days[r] >= DateMin) =>
        /\ selected[1] = selected[2]
        /\ runners[1] = runners[2]
        /\ Ids(ineligible[1]) = Ids(ineligible[2])
        /\ Ids(below[1]) = Ids(below[2])
        /\ ret[1].selected = ret[2].selected

C24_InRange_Witness ==
    /\ pc[1] = "done" /\ pc[2] = "done"
    /\ lookback_days[1] = 1 /\ lookback_days[2] = 7
    /\ new_count[1] < new_count[2]
    /\ header[1].new_this_week # header[2].new_this_week
    /\ selected[1] # <<>> /\ selected[1] = selected[2]

\* The papers the dedup loop of run r dropped.
Dropped(r) == IF unique[r] = <<>> THEN {} ELSE Ids(papers[r]) \ Ids(unique[r])

\* C27: a paper the dedup loop dropped is left unpicked by the run, whatever
\* its score; it is among the papers the backlog count counts, and a run that
\* starts next reads it into its pool.
C27_DroppedStaysCandidate ==
    [][\A r \in Procs :
          /\ Dropped(r) \subseteq UnpickedIds(db)
          /\ (pc[r] = "done" /\ ret[r].md = "list") =>
                /\ unpicked_remaining[r] = Cardinality(UnpickedIds(db))
                /\ unpicked_remaining[r] >= Cardinality(Dropped(r))
          /\ (pc[r] = "done" /\ again') => Dropped(r) \subseteq Ids(pool'[r])
      ]_vars

\* The second of two runs in a row selected a paper whose normalised title is
\* that of a paper the first run selected.
C27_Witness ==
    /\ again /\ pc[1] = "done"
    /\ \E i \in DOMAIN selected[1], j \in DOMAIN db :
            /\ db[j].paper_id \in prevSelected
            /\ db[j].paper_id # selected[1][i].paper_id
            /\ title_norm(db[j]) = title_norm(selected[1][i])

\* C28: no step resets a picked flag or changes a stored row otherwise than
\* by setting picked or by filling in an empty oa_url; a step that stores or
\* re-ingests a paper changes no picked flag, and a pool that is read holds no
\* picked paper.
C28_ReingestKeepsRow ==
    [][/\ Len(db') >= Len(db)
       /\ \A i \in DOMAIN db :
            /\ db'[i].picked >= db[i].picked
            /\ db'[i].oa_url # db[i].oa_url => db[i].oa_url = <<>> /\ db'[i].oa_url # <<>>
            /\ db'[i] = [db[i] EXCEPT !.picked = db'[i].picked, !.oa_url = db'[i].oa_url]
            /\ (Len(db') > Len(db) \/ db'[i].oa_url # db[i].oa_url) =>
                    \A j \in DOMAIN db : db'[j].picked = db[j].picked
       /\ \A r \in Procs : pool'[r] # pool[r] => Ids(pool'[r]) \cap PickedIds(db) = {}
      ]_vars

\* A picked row whose open-access URL was filled in by a later entry of the
\* same id, beside a picked row that keeps the URL it was stored with though
\* an entry of the same id brings another.
C28_Witness ==
    /\ \E i \in DOMAIN db :
            /\ db[i].picked = 1 /\ db[i].title = <<"a">> /\ db[i].journal = "Econometrica"
            /\ db[i].oa_url = <<"u">>
    /\ \E i \in DOMAIN db :
            /\ db[i].picked = 1 /\ db[i].title = <<"c">> /\ db[i].journal = "Econometrica"
            /\ db[i].oa_url = <<"w">>
    /\ pc[1] = "done" /\ again /\ pool[1] # <<>>

\* ------------------------------------------------------------------ download
\* The sources of the fallback chain, in the order download_papers calls them.
Sources == <<"openalex", "unpaywall", "semantic_scholar", "nber">>

\* Mutant: every source is called, whatever the earlier ones returned.
FallbackChain_TryAll(sources, yields) ==
    [tried |-> [k \in DOMAIN sources |-> [source |-> sources[k], pdf |-> sources[k] \in yields]],
     pdf |-> \E k \in DOMAIN sources : sources[k] \in yields]

\* The chain of `if not pdf_bytes` calls: the sources called, in order, each
\* with whether it returned a PDF, and whether one did.  yields holds the
\* sources that return one.
RECURSIVE FallbackChain(_, _)
FallbackChain(sources, yields) ==
    IF sources = <<>> THEN [tried |-> <<>>, pdf |-> FALSE]
    ELSE IF Head(sources) \in yields
         THEN [tried |-> <<[source |-> Head(sources), pdf |-> TRUE]>>, pdf |-> TRUE]
    ELSE LET rest == FallbackChain(Tail(sources), yields)
         IN  [tried |-> <<[source |-> Head(sources), pdf |-> FALSE]>> \o rest.tried,
              pdf |-> rest.pdf]

\* str(dest): the file of paper number i
Dest(i, paper) == [i |-> i, title |-> paper.title]

\* download_papers is called: with downloads disabled in the config it returns
\* two empty lists at once, otherwise it enters its loop.
CallDownload(input, enabled) ==
    [pc |-> IF enabled THEN "loop" ELSE "returned", enabled |-> enabled,
     papers |-> input, i |-> 0, downloaded |-> <<>>, manual |-> <<>>, tried |-> <<>>]

\* One pass of the loop, for paper number dl.i + 1: the file is there already,
\* or the chain is gone through; _try_openalex_oa returns nothing for a
\* paper without oa_url.
DownloadPaper ==
    /\ dl.pc = "loop" /\ dl.i < Len(dl.papers)
    /\ \E exists \in BOOLEAN, yields \in SUBSET {Sources[k] : k \in DOMAIN Sources} :
        LET i == dl.i + 1
            paper == dl.papers[i]
            chain == FallbackChain(Sources, yields)
        IN  /\ "openalex" \in yields => paper.oa_url # <<>>
            /\ dl' = IF exists
                     THEN [dl EXCEPT !.i = i, !.downloaded = Append(@, Dest(i, paper)),
                                     !.tried = Append(@, <<>>)]
                     ELSE IF chain.pdf
                     THEN [dl EXCEPT !.i = i, !.downloaded = Append(@, Dest(i, paper)),
                                     !.tried = Append(@, chain.tried)]
                     ELSE [dl EXCEPT !.i = i, !.manual = Append(@, paper),
                                     !.tried = Append(@, chain.tried)]
    /\ UNCHANGED <<db, config, pc, locals, ghosts, master>>

\* ------------------------------------------------------------------ master script
Flags == {"fetch_only", "digest_only", "picks_only", "no_download", "no_notify", "jmp"}

\* The order of the steps in main.
StepOrder == <<"jmp", "fetch", "digest", "picks", "download", "notify">>

\* The conditions of the steps of main.
RunsFetch(args) == "digest_only" \notin args /\ "picks_only" \notin args

RunsDigest(args) == "fetch_only" \notin args /\ "picks_only" \notin args

RunsPicks(args) == "fetch_only" \notin args /\ "digest_only" \notin args

RunsDownload(args, selected_papers) ==
    selected_papers # <<>> /\ "no_download" \notin args /\ "fetch_only" \notin args

\* Mutant: the notification does not ask for a reading-list path.
RunsNotify_AnyPath(args, picks_path) == "no_notify" \notin args

RunsNotify(args, picks_path) == "no_notify" \notin args /\ picks_path # ""

Ran(step) == [master EXCEPT !.ran = Append(@, step)]

\* Step 0: with --jmp the job-market papers are stored, and main returns unless
\* --picks-only is given too.
MasterJmp ==
    /\ master.pc = "jmp"
    /\ IF "jmp" \in master.args
       THEN /\ \E c \in JmpCandidates : db' = _store_candidate(db, c, Today)
            /\ master' = [Ran("jmp") EXCEPT
                            !.pc = IF "picks_only" \in master.args THEN "fetch" ELSE "end"]
       ELSE /\ master' = [master EXCEPT !.pc = "fetch"]
            /\ UNCHANGED db
    /\ UNCHANGED <<config, pc, locals, ghosts, dl>>

\* Step 1: the fetch run stores the next entry of the feeds, or finds nothing new.
MasterFetch ==
    /\ master.pc = "fetch"
    /\ IF RunsFetch(master.args)
       THEN /\ \E new \in BOOLEAN :
                db' = IF new THEN StoreFetched(db, BacklogPaper(Len(db) + 1), Today) ELSE db
            /\ master' = [Ran("fetch") EXCEPT !.pc = "digest"]
       ELSE /\ master' = [master EXCEPT !.pc = "digest"]
            /\ UNCHANGED db
    /\ UNCHANGED <<config, pc, locals, ghosts, dl>>

\* Step 2: the digest reads the store and writes its file.
MasterDigest ==
    /\ master.pc = "digest"
    /\ master' = IF RunsDigest(master.args)
                 THEN [Ran("digest") EXCEPT !.pc = "picks"]
                 ELSE [master EXCEPT !.pc = "picks"]
    /\ UNCHANGED <<db, config, pc, locals, ghosts, dl>>

\* Step 3: pick_weekly_reading is called, or skipped.
MasterPicks ==
    /\ master.pc = "picks"
    /\ master' = IF RunsPicks(master.args)
                 THEN [Ran("picks") EXCEPT !.pc = "in_picks"]
                 ELSE [master EXCEPT !.pc = "download"]
    /\ UNCHANGED <<db, config, pc, locals, ghosts, dl>>

\* pick_weekly_reading, called by main with --days
MasterPicksRun ==
    /\ master.pc = "in_picks"
    /\ \/ pc[1] = "idle" /\ ReadPool(1, master.days)
       \/ Gate(1)
       \/ Threshold(1)
       \/ Select(1)
       \/ WriteList(1)
       \/ Fail(1)
       \/ WriteFail(1)

\* It returned: picks_md, picks_path, selected_papers = ...
MasterPicksReturn ==
    /\ master.pc = "in_picks" /\ pc[1] = "done"
    /\ master' = [master EXCEPT !.pc = "download", !.picks_md = ret[1].md,
                                !.picks_path = ret[1].path,
                                !.selected_papers = ret[1].selected]
    /\ UNCHANGED <<db, config, pc, locals, ghosts, dl>>

\* It raised: main ends with the exception.
MasterPicksRaise ==
    /\ master.pc = "in_picks" /\ pc[1] \in {"crashed", "failed"}
    /\ master' = [master EXCEPT !.pc = "aborted"]
    /\ UNCHANGED <<db, config, pc, locals, ghosts, dl>>

\* Step 4: download_papers is called with the selection, or skipped.
MasterDownload ==
    /\ master.pc = "download"
    /\ IF RunsDownload(master.args, master.selected_papers)
       THEN /\ master' = [Ran("download") EXCEPT !.pc = "in_download"]
            /\ \E enabled \in BOOLEAN : dl' = CallDownload(master.selected_papers, enabled)
       ELSE /\ master' = [master EXCEPT !.pc = "notify"]
            /\ UNCHANGED dl
    /\ UNCHANGED <<db, config, pc, locals, ghosts>>

\* download_papers returns its two lists.
MasterDownloadReturn ==
    /\ master.pc = "in_download"
    /\ dl.pc = "returned" \/ (dl.pc = "loop" /\ dl.i = Len(dl.papers))
    /\ dl' = [dl EXCEPT !.pc = "returned"]
    /\ master' = [master EXCEPT !.pc = "notify"]
    /\ UNCHANGED <<db, config, pc, locals, ghosts>>

\* download_papers raises (OSError from mkdir or write_bytes): main ends.
DownloadFail ==
    /\ master.pc = "in_download" /\ dl.pc = "loop"
    /\ dl' = [dl EXCEPT !.pc = "failed"]
    /\ master' = [master EXCEPT !.pc = "aborted"]
    /\ UNCHANGED <<db, config, pc, locals, ghosts>>

\* The number of papers the summary names: the literal of line 105.
SummaryPapers == 7

\* Step 5: notify is called with the summary, or skipped.
MasterNotify ==
    /\ master.pc = "notify"
    /\ master' = IF RunsNotify(master.args, master.picks_path)
                 THEN [Ran("notify") EXCEPT !.pc = "end",
                          !.summary = <<[papers |-> SummaryPapers,
                                         downloaded |-> Len(dl.downloaded),
                                         manual |-> Len(dl.manual)]>>]
                 ELSE [master EXCEPT !.pc = "end"]
    /\ UNCHANGED <<db, config, pc, locals, ghosts, dl>>

\* notify raises (no osascript, no config file): main ends.
NotifyFail ==
    /\ master.pc = "notify" /\ RunsNotify(master.args, master.picks_path)
    /\ master' = [Ran("notify") EXCEPT !.pc = "aborted"]
    /\ UNCHANGED <<db, config, pc, locals, ghosts, dl>>

\* The store the master script finds, and the weekly_picks sections.
MasterConfigs ==
    {[num_papers |-> n] : n \in 1..MaxNum} \cup {[num_papers |-> 1, min_score |-> 50]}

InitMaster ==
    /\ \E n \in 0..MasterStock : db = BacklogStore(n)
    /\ config \in MasterConfigs
    /\ pc = [r \in Procs |-> "idle"]
    /\ picks_cfg = [r \in Procs |-> <<>>]
    /\ pool = [r \in Procs |-> <<>>]
    /\ papers = [r \in Procs |-> <<>>]
    /\ ineligible = [r \in Procs |-> <<>>]
    /\ unique = [r \in Procs |-> <<>>]
    /\ below = [r \in Procs |-> <<>>]
    /\ eligible = [r \in Procs |-> <<>>]
    /\ selected = [r \in Procs |-> <<>>]
    /\ runners = [r \in Procs |-> <<>>]
    /\ unpicked_remaining = [r \in Procs |-> 0]
    /\ ret = [r \in Procs |-> NoReturn]
    /\ again = FALSE
    /\ prevSelected = {}
    /\ prevRunners = {}
    /\ overlap = [r \in Procs |-> FALSE]
    /\ lookback_days = [r \in Procs |-> 0]
    /\ new_count = [r \in Procs |-> 0]
    /\ header = [r \in Procs |-> <<>>]
    /\ \E args \in SUBSET Flags :
        master = [MasterOff EXCEPT !.pc = "jmp", !.args = args, !.days = LookbackDefault]
    /\ dl = NoDownload

NextMaster ==
    \/ MasterJmp
    \/ MasterFetch
    \/ MasterDigest
    \/ MasterPicks
    \/ MasterPicksRun
    \/ MasterPicksReturn
    \/ MasterPicksRaise
    \/ MasterDownload
    \/ DownloadPaper
    \/ MasterDownloadReturn
    \/ DownloadFail
    \/ MasterNotify
    \/ NotifyFail

SpecMaster == InitMaster /\ [][NextMaster]_vars

\* The place of a step in the order of main, and whether main has run it.
StepIndex(step) == CHOOSE k \in DOMAIN StepOrder : StepOrder[k] = step

HasRun(step) == \E k \in DOMAIN master.ran : master.ran[k] = step

\* C25: the steps main has run are in the order fetch, digest, picks,
\* download, notify; download has run only after a picks step that returned a
\* selection, notify only after one that returned a reading-list path, so
\* neither after a picks step that had nothing to list; --picks-only runs
\* neither fetch nor digest, --fetch-only nothing after fetch.
C25_StepOrder ==
    /\ \A i, j \in DOMAIN master.ran :
            i < j => StepIndex(master.ran[i]) < StepIndex(master.ran[j])
    /\ HasRun("download") =>
            HasRun("picks") /\ pc[1] = "done" /\ ret[1].selected # <<>>
    /\ HasRun("notify") =>
            HasRun("picks") /\ pc[1] = "done" /\ ret[1].path # ""
    /\ (pc[1] = "done" /\ ret[1].md # "list") => ~HasRun("download") /\ ~HasRun("notify")
    /\ "picks_only" \in master.args => ~HasRun("fetch") /\ ~HasRun("digest")
    /\ "fetch_only" \in master.args =>
            \A k \in DOMAIN master.ran : master.ran[k] \in {"jmp", "fetch"}

\* main has run all five steps.
C25_Witness ==
    /\ master.pc = "end"
    /\ master.ran = <<"fetch", "digest", "picks", "download", "notify">>
    /\ master.selected_papers # <<>>

\* Paper number k of the input is in the downloaded list, in the manual list.
InDownloaded(k) == \E d \in DOMAIN dl.downloaded : dl.downloaded[d].i = k

InManual(k) == \E m \in DOMAIN dl.manual : dl.manual[m] = dl.papers[k]

\* The calls made for one paper follow the fixed order, and each call but the
\* last returned no PDF.
InChainOrder(t) ==
    /\ Len(t) <= Len(Sources)
    /\ \A j \in DOMAIN t : t[j].source = Sources[j]
    /\ \A j \in DOMAIN t : j < Len(t) => ~t[j].pdf

\* C26 as stated: when download_papers has returned, every input paper is in
\* exactly one of its two lists and the lengths of the lists add up to the
\* number of input papers.
C26_EveryPaperListed_Original ==
    dl.pc = "returned" =>
        /\ \A k \in DOMAIN dl.papers : InDownloaded(k) # InManual(k)
        /\ Len(dl.downloaded) + Len(dl.manual) = Len(dl.papers)

\* C26, amended: with downloads enabled the sources are called in the fixed
\* order, a later one only when every earlier one returned no PDF, a paper
\* is in the manual list exactly when all four were called and none returned
\* one, every paper gone through is in exactly one of the two lists, and the
\* lengths add up to the number of input papers at the return; with downloads
\* disabled no source is called and both lists are returned empty.
C26_EveryPaperListed ==
    dl.pc # "off" =>
        /\ Len(dl.tried) = dl.i
        /\ \A k \in 1..dl.i :
                /\ InChainOrder(dl.tried[k])
                /\ InDownloaded(k) # InManual(k)
                /\ InManual(k) <=>
                        /\ Len(dl.tried[k]) = Len(Sources)
                        /\ \A j \in DOMAIN dl.tried[k] : ~dl.tried[k][j].pdf
        /\ Len(dl.downloaded) + Len(dl.manual) = dl.i
        /\ (dl.pc = "returned" /\ dl.enabled) => dl.i = Len(dl.papers)
        /\ ~dl.enabled =>
                dl.pc = "returned" /\ dl.i = 0 /\ dl.downloaded = <<>> /\ dl.manual = <<>>

\* download_papers has returned one paper in each list: the first got its PDF
\* from the third source, the second from none.
C26_Witness ==
    /\ dl.pc = "returned" /\ dl.enabled
    /\ Len(dl.papers) = 2 /\ Len(dl.downloaded) = 1 /\ Len(dl.manual) = 1
    /\ Len(dl.tried[1]) = 3 /\ dl.tried[1][3].pdf
    /\ Len(dl.tried[2]) = 4 /\ InManual(2)

\* C29: the number of selected papers the header of the reading list states,
\* and the number the notification summary states, is the number of papers
\* in the selection the run returned.
C29_StatedCountIsActual ==
    /\ (pc[1] = "done" /\ ret[1].md = "list") =>
            header[1].papers_selected = Len(ret[1].selected)
    /\ master.summary # <<>> =>
            master.summary[1].papers = Len(master.selected_papers)

\* The selection of run 1 is committed: every selected paper is picked.
SelectionCommitted == Ids(selected[1]) \subseteq PickedIds(db)

\* C30: from the moment the run has taken its selection, while the file is
\* written, while download and notification run, and after any of them has
\* failed, the selected papers are picked and no later read of the pool
\* returns them.
C30_CommittedBeforeDelivery ==
    [][/\ (pc[1] \in {"write", "done"} \/ (pc[1] = "failed" /\ selected[1] # <<>>)) =>
                SelectionCommitted
       /\ master.pc \in {"download", "in_download", "notify", "end", "aborted"} =>
                /\ SelectionCommitted
                /\ Ids(master.selected_papers) \subseteq PickedIds(db)
                /\ PickedIds(db) \subseteq PickedIds(db')
                /\ Ids(selected[1]) \cap UnpickedIds(db') = {}
      ]_vars

\* Writing the file failed: the run has selected papers, all of them picked,
\* and has returned nothing; main has ended without download or notification.
C30_Witness ==
    /\ pc[1] = "failed" /\ selected[1] # <<>>
    /\ SelectionCommitted
    /\ ret[1] = NoReturn /\ header[1] = <<>>
    /\ master.pc = "aborted"
    /\ ~HasRun("download") /\ ~HasRun("notify")

====
